---- MODULE Spec2Model ----
(***************************************************************************)
(* Model of brain_tumor_segmentation/dataset.py (class DICOMProcessor):    *)
(* the three per-file extractors, the directory aggregator                 *)
(* (process_dicom_directory), the subject aggregator (process_subject) and *)
(* the parallel driver (process_all_subjects_parallel).                    *)
(*                                                                         *)
(* The specifications share the operators that model the code:             *)
(*   SpecDirectory calls process_dicom_directory on one directory tree     *)
(*                drawn from a bounded set of trees;                       *)
(*   SpecSubject  calls process_subject on one subject directory drawn     *)
(*                from a bounded set of subject directories;               *)
(*   Spec         runs process_all_subjects_parallel (pool of worker       *)
(*                processes, imap, regrouping, concatenation) on a root    *)
(*                directory, twice in a row on the unchanged tree.         *)
(*   FairSpec     is one run of the driver with weak fairness of the       *)
(*                coordinating process.                                    *)
(***************************************************************************)
EXTENDS Integers, Sequences, FiniteSets, TLC

(***************************************************************************)
(* Bounds of the model.                                                    *)
(***************************************************************************)
\* files in the directory tree handed to process_dicom_directory (SpecDirectory)
MaxFiles == 3
\* files in one subject directory (SpecSubject)
MaxSubjectFiles == 3
\* subject directories under the root (Spec)
MaxSubjects == 2
\* size of the worker pool (Spec)
MaxWorkers == 2
\* runs of the pipeline on the unchanged tree (Spec)
MaxRuns == 2

(***************************************************************************)
(* Python values.                                                          *)
(***************************************************************************)
\* the value None returned by a function
None == [tag |-> "None"]
\* an exception leaving a function
Raise == [tag |-> "raise"]
\* a dict returned by a function
Dict(d) == [tag |-> "dict", d |-> d]
\* any other value returned by a function
Return(v) == [tag |-> "ret", v |-> v]
\* the value of a header field that is not set: getattr(ds, key, None)
Unset == 0

\* {**a, **b}
Merge(a, b) ==
  [k \in (DOMAIN a) \cup (DOMAIN b) |-> IF k \in DOMAIN b THEN b[k] ELSE a[k]]

\* self.scan_types
scan_types == <<"FLAIR", "T1w", "T1wCE", "T2w">>

ScanTypeSet == {scan_types[i] : i \in DOMAIN scan_types}

metadata_keys ==
  {"PatientID", "StudyDate", "Modality", "Manufacturer", "MagneticFieldStrength",
   "SliceThickness", "PixelSpacing", "ImageType", "BodyPartExamined",
   "ContrastBolusAgent", "RepetitionTime", "EchoTime"}

(***************************************************************************)
(* The filesystem.  A file is                                              *)
(*   [name, hdr, img, tex, pid]                                            *)
(* name: <<stem, extension>>;  hdr, img, tex: whether the body of the      *)
(* metadata, statistics and texture extractor runs through on this file    *)
(* (FALSE: the file is unreadable or corrupt for it and the body raises);  *)
(* pid: the PatientID of the header, Unset when the header has none.       *)
(* A directory is [exists, frames]: frames is what os.walk yields, one     *)
(* sequence of files per directory of the tree.                            *)
(***************************************************************************)
\* str.endswith on a name made of a stem and an extension
endswith(name, suffix) == Len(name) >= 1 /\ name[Len(name)] = suffix

\* os.path.basename of the path of a file of the walk
basename(file) == file.name

\* a test that holds of every path
os_path_exists_always(dir) == TRUE

\* os.path.exists
os_path_exists(dir) == dir.exists

\* os.walk: nothing for a path that does not exist
os_walk(dir) == IF dir.exists THEN dir.frames ELSE <<>>

(***************************************************************************)
(* The extractors.                                                         *)
(***************************************************************************)
\* try: <body> except Exception: log, return None
TryExcept(r) == IF r.tag = "raise" THEN None ELSE r

\* the header value read by getattr(ds, key, None)
getattr(file, key) == IF key = "PatientID" THEN file.pid ELSE Unset

\* a metadata dict that leaves out the header fields that are not set
metadata_body_omit_unset(file) ==
  IF file.hdr
  THEN Dict(Merge([key \in {k \in metadata_keys : getattr(file, k) # Unset}
                     |-> getattr(file, key)],
                  [DCMFileName |-> basename(file)]))
  ELSE Raise

\* lines 67-75
metadata_body(file) ==
  IF file.hdr
  THEN Dict(Merge([key \in metadata_keys |-> getattr(file, key)],
                  [DCMFileName |-> basename(file)]))
  ELSE Raise

\* lines 66-78
extract_dicom_metadata(file) == TryExcept(metadata_body(file))

\* lines 96-107; the numbers are abstracted to one value per file
statistics_body(file) ==
  IF file.img
  THEN Dict([MeanIntensity |-> 1, StdIntensity |-> 1, Entropy |-> 1])
  ELSE Raise

\* the statistics extractor with no except clause
extract_image_statistics_no_except(file) == statistics_body(file)

\* lines 95-110
extract_image_statistics(file) == TryExcept(statistics_body(file))

\* lines 144-152
glcm_body(file) ==
  IF file.tex
  THEN Dict([GLCM_Contrast |-> 1, GLCM_Correlation |-> 1,
             GLCM_Energy |-> 1, GLCM_Homogeneity |-> 1])
  ELSE Raise

\* lines 143-155
extract_glcm_features(file) == TryExcept(glcm_body(file))

(***************************************************************************)
(* Tables (pandas.DataFrame): the set of columns and the rows in order.    *)
(***************************************************************************)
\* pd.DataFrame(data) for a list of dicts
DataFrame(data) ==
  [cols |-> UNION {DOMAIN data[i] : i \in DOMAIN data}, rows |-> data]

\* df[col] = value for a scalar value
SetColumn(df, col, value) ==
  [cols |-> df.cols \cup {col},
   rows |-> [i \in DOMAIN df.rows |-> Merge(df.rows[i], [c \in {col} |-> value])]]

\* col in df
HasColumn(df, col) == col \in df.cols

(***************************************************************************)
(* process_dicom_directory.                                                *)
(***************************************************************************)
\* Python truth value of an extractor's result
Truthy(r) == r.tag = "dict" /\ DOMAIN r.d # {}

\* a gate that does not look at the texture features
RowGateNoGlcm(metadata, image_stats, glcm_features) ==
  Truthy(metadata) /\ Truthy(image_stats)

\* line 181
RowGate(metadata, image_stats, glcm_features) ==
  Truthy(metadata) /\ Truthy(image_stats) /\ Truthy(glcm_features)

\* {**metadata, **image_stats, **glcm_features}: unpacking None is a TypeError
MergeRecords(metadata, image_stats, glcm_features) ==
  IF metadata.tag = "dict" /\ image_stats.tag = "dict" /\ glcm_features.tag = "dict"
  THEN Dict(Merge(Merge(metadata.d, image_stats.d), glcm_features.d))
  ELSE Raise

\* lines 176-182 for one file: data after the iteration, or Raise
VisitFile(file, data) ==
  IF endswith(file.name, ".dcm")
  THEN LET metadata      == extract_dicom_metadata(file)
           image_stats   == extract_image_statistics(file)
           glcm_features == extract_glcm_features(file)
       IN  IF "raise" \in {metadata.tag, image_stats.tag, glcm_features.tag}
           THEN Raise
           ELSE IF RowGate(metadata, image_stats, glcm_features)
                THEN LET row == MergeRecords(metadata, image_stats, glcm_features)
                     IN  IF row.tag = "raise" THEN Raise
                                              ELSE Return(Append(data, row.d))
                ELSE Return(data)
  ELSE Return(data)

RECURSIVE VisitFiles(_, _)
\* line 175: the loop over the files of one directory of the walk
VisitFiles(files, data) ==
  IF files = <<>>
  THEN Return(data)
  ELSE LET r == VisitFile(Head(files), data)
       IN  IF r.tag = "raise" THEN Raise ELSE VisitFiles(Tail(files), r.v)

RECURSIVE WalkFrames(_, _)
\* line 174: the loop over the directories of the walk
WalkFrames(frames, data) ==
  IF frames = <<>>
  THEN Return(data)
  ELSE LET r == VisitFiles(Head(frames), data)
       IN  IF r.tag = "raise" THEN Raise ELSE WalkFrames(Tail(frames), r.v)

\* lines 173-183: the table, or Raise
process_dicom_directory(dir) ==
  LET r == WalkFrames(os_walk(dir), <<>>)
  IN  IF r.tag = "raise" THEN Raise ELSE Return(DataFrame(r.v))

(***************************************************************************)
(* State.                                                                  *)
(***************************************************************************)
VARIABLES
  fs,               \* root directory: subject id -> scan type -> directory
  call,             \* SpecSubject: the last call of an aggregator and its result
  num_workers,      \* self.num_workers
  run,              \* number of the current run of the pipeline
  pc,               \* position of the coordinating process in the driver
  subjects,         \* line 216: the list of subject paths
  next_task,        \* pool: index of the next task a worker takes
  worker,           \* pool: the task each worker process is running (0: idle)
  cache,            \* pool: results of finished tasks, by task index
  results,          \* line 224: results collected from imap so far
  scan_types_dict,  \* line 227
  out,              \* what the driver returned or raised
  prev              \* what the previous run returned or raised

svars == <<fs, call>>
dvars == <<num_workers, run, pc, subjects, next_task, worker, cache, results,
           scan_types_dict, out, prev>>
vars == <<fs, call, num_workers, run, pc, subjects, next_task, worker, cache,
          results, scan_types_dict, out, prev>>

\* os.path.basename(subject_path): subjects are named by their number
subject_id_of(subject_path) == subject_path

RECURSIVE SubjectLoop(_, _, _)
\* lines 194-201 from the i-th scan type on: subject_results, or Raise
SubjectLoop(subject_path, i, subject_results) ==
  IF i > Len(scan_types)
  THEN Return(subject_results)
  ELSE LET scan_type == scan_types[i]
           dicom_dir == fs[subject_path][scan_type]
       IN  IF os_path_exists(dicom_dir)
           THEN LET r == process_dicom_directory(dicom_dir)
                IN  IF r.tag = "raise"
                    THEN Raise
                    ELSE LET dicom_features == r.v
                             with_id == IF ~HasColumn(dicom_features, "PatientID")
                                        THEN SetColumn(dicom_features, "SubjectID",
                                                       subject_id_of(subject_path))
                                        ELSE dicom_features
                             labelled == SetColumn(with_id, "ScanType", scan_type)
                         IN  SubjectLoop(subject_path, i + 1,
                                         Append(subject_results, labelled))
           ELSE SubjectLoop(subject_path, i + 1, subject_results)

\* lines 185-203
process_subject(subject_path) == SubjectLoop(subject_path, 1, <<>>)

(***************************************************************************)
(* Bounded sets of directory trees.                                        *)
(***************************************************************************)
\* what a file can be: its extension, which extractors run through on it,
\* whether its header has a PatientID
FileKinds ==
  {[ext |-> ".txt", hdr |-> FALSE, img |-> FALSE, tex |-> FALSE, haspid |-> FALSE],
   [ext |-> ".DCM", hdr |-> TRUE, img |-> TRUE, tex |-> TRUE, haspid |-> TRUE]}
  \cup
  {k \in [ext : {".dcm"}, hdr : BOOLEAN, img : BOOLEAN, tex : BOOLEAN,
          haspid : BOOLEAN] :
     /\ k.haspid => k.hdr
     /\ ~(k.hdr /\ k.img /\ k.tex) => (k.haspid = k.hdr)}

\* the file number stem of a subject, of the given kind
MkFile(subject, stem, kind) ==
  [name |-> <<stem, kind.ext>>, hdr |-> kind.hdr, img |-> kind.img,
   tex |-> kind.tex, pid |-> IF kind.haspid THEN subject ELSE Unset]

\* a path that does not exist
Missing == [exists |-> FALSE, frames |-> <<>>]

\* a directory of the given files, the files after the first s in a subdirectory
MkDir(files, s) ==
  [exists |-> TRUE,
   frames |-> IF s = Len(files)
              THEN <<files>>
              ELSE <<SubSeq(files, 1, s), SubSeq(files, s + 1, Len(files))>>]

\* the directories of a subject with n files (n = -1: the path does not exist)
Dirs(subject, n, kinds) ==
  IF n < 0
  THEN {Missing}
  ELSE {MkDir([i \in 1..n |-> MkFile(subject, i, ks[i])], s) :
          ks \in [1..n -> kinds], s \in 0..n}

RECURSIVE SumOver(_, _)
SumOver(f, S) ==
  IF S = {} THEN 0
  ELSE LET x == CHOOSE y \in S : TRUE
       IN  (IF f[x] > 0 THEN f[x] ELSE 0) + SumOver(f, S \ {x})

\* how many files each scan-type directory of a subject has, max in total
Shapes(max) ==
  {c \in [ScanTypeSet -> -1..max] : SumOver(c, ScanTypeSet) <= max}

\* the subject directory made of four scan-type directories
MkSubject(d1, d2, d3, d4) ==
  [st \in ScanTypeSet |->
     CASE st = "FLAIR" -> d1 [] st = "T1w" -> d2 [] st = "T1wCE" -> d3
       [] OTHER -> d4]

(***************************************************************************)
(* SpecDirectory and SpecSubject: the aggregators called on one directory. *)
(***************************************************************************)
NoCall == [op |-> "none"]

DriverIdle ==
  /\ num_workers = 0
  /\ run = 0
  /\ pc = "idle"
  /\ subjects = <<>>
  /\ next_task = 0
  /\ worker = <<>>
  /\ cache = <<>>
  /\ results = <<>>
  /\ scan_types_dict = <<>>
  /\ out = NoCall
  /\ prev = NoCall

\* the kinds of file of the subject directories of SpecSubject: not a DICOM
\* name, unreadable for every extractor, and complete with and without PatientID
SubjectKinds ==
  {k \in FileKinds :
     \/ k.ext = ".txt"
     \/ k.ext = ".dcm" /\ k.hdr = k.img /\ k.img = k.tex}

InitDirectory ==
  /\ \E n \in -1..MaxFiles, scan_type \in ScanTypeSet :
       \E d \in Dirs(1, n, FileKinds) :
         fs = [s \in {1} |-> [st \in ScanTypeSet |->
                                IF st = scan_type THEN d ELSE Missing]]
  /\ call = NoCall
  /\ DriverIdle

InitSubject ==
  /\ \E c \in Shapes(MaxSubjectFiles) :
       \E d1 \in Dirs(1, c["FLAIR"], SubjectKinds), d2 \in Dirs(1, c["T1w"], SubjectKinds),
          d3 \in Dirs(1, c["T1wCE"], SubjectKinds), d4 \in Dirs(1, c["T2w"], SubjectKinds) :
         fs = [s \in {1} |-> MkSubject(d1, d2, d3, d4)]
  /\ call = NoCall
  /\ DriverIdle

\* process_dicom_directory(os.path.join(subject_path, scan_type))
CallDirectory(subject, scan_type) ==
  /\ pc = "idle"
  /\ call = NoCall
  /\ call' = [op |-> "process_dicom_directory", subject |-> subject,
              scan_type |-> scan_type,
              ret |-> process_dicom_directory(fs[subject][scan_type])]
  /\ UNCHANGED <<fs, dvars>>

\* process_subject(subject_path)
CallSubject(subject) ==
  /\ pc = "idle"
  /\ call = NoCall
  /\ call' = [op |-> "process_subject", subject |-> subject, scan_type |-> "",
              ret |-> process_subject(subject)]
  /\ UNCHANGED <<fs, dvars>>

NextDirectory ==
  \E subject \in DOMAIN fs, scan_type \in ScanTypeSet :
    CallDirectory(subject, scan_type)

NextSubject == \E subject \in DOMAIN fs : CallSubject(subject)

SpecDirectory == InitDirectory /\ [][NextDirectory]_vars

SpecSubject == InitSubject /\ [][NextSubject]_vars

(***************************************************************************)
(* The parallel driver, process_all_subjects_parallel.                     *)
(***************************************************************************)
\* an exception of the given class leaving a function
RaiseOf(exc) == [tag |-> "raise", exc |-> exc]

\* the result of a task that has not finished
Pending == [tag |-> "pending"]

RECURSIVE Unique(_)
\* Series.unique(): the values in order of first appearance
Unique(values) ==
  IF values = <<>>
  THEN <<>>
  ELSE LET rest == Unique(SubSeq(values, 1, Len(values) - 1))
           last == values[Len(values)]
       IN  IF \E i \in DOMAIN rest : rest[i] = last THEN rest
                                                    ELSE Append(rest, last)

\* scan_df['ScanType']
Column(df, col) == [i \in DOMAIN df.rows |-> df.rows[i][col]]

\* line 231 with the table put in front of the bucket
AddToBucketFront(dict, scan_type, scan_df) ==
  [dict EXCEPT ![scan_type] = <<scan_df>> \o @]

\* line 231: scan_types_dict[scan_type].append(scan_df)
AddToBucket(dict, scan_type, scan_df) ==
  [dict EXCEPT ![scan_type] = Append(@, scan_df)]

\* lines 230-231 for one table: the dict after it, or IndexError
RegroupTable(dict, scan_df) ==
  LET unique == Unique(Column(scan_df, "ScanType"))
  IN  IF unique = <<>>
      THEN RaiseOf("IndexError")
      ELSE Return(AddToBucket(dict, unique[1], scan_df))

RECURSIVE RegroupTables(_, _)
\* line 229: the loop over the tables of one subject
RegroupTables(dict, subject_results) ==
  IF subject_results = <<>>
  THEN Return(dict)
  ELSE LET r == RegroupTable(dict, Head(subject_results))
       IN  IF r.tag = "raise" THEN r ELSE RegroupTables(r.v, Tail(subject_results))

RECURSIVE RegroupResults(_, _)
\* line 228: the loop over the subjects' results
RegroupResults(dict, res) ==
  IF res = <<>>
  THEN Return(dict)
  ELSE LET r == RegroupTables(dict, Head(res))
       IN  IF r.tag = "raise" THEN r ELSE RegroupResults(r.v, Tail(res))

\* the value a row gets in a column its table does not have
NaN == Unset

RECURSIVE ConcatRows(_, _)
ConcatRows(dfs, cols) ==
  IF dfs = <<>>
  THEN <<>>
  ELSE [i \in DOMAIN Head(dfs).rows |->
          [c \in cols |-> IF c \in DOMAIN Head(dfs).rows[i]
                          THEN Head(dfs).rows[i][c] ELSE NaN]]
       \o ConcatRows(Tail(dfs), cols)

\* pd.concat(dfs): ValueError for an empty list
pd_concat(dfs) ==
  IF dfs = <<>>
  THEN RaiseOf("ValueError")
  ELSE LET cols == UNION {dfs[i].cols : i \in DOMAIN dfs}
       IN  Return([cols |-> cols, rows |-> ConcatRows(dfs, cols)])

\* line 233: the dict of the concatenated tables, or the first exception
ConcatAll(dict) ==
  IF \E i \in DOMAIN scan_types : pd_concat(dict[scan_types[i]]).tag = "raise"
  THEN LET i == CHOOSE j \in DOMAIN scan_types :
                  /\ pd_concat(dict[scan_types[j]]).tag = "raise"
                  /\ \A k \in 1..(j - 1) : pd_concat(dict[scan_types[k]]).tag # "raise"
       IN  pd_concat(dict[scan_types[i]])
  ELSE Return([st \in ScanTypeSet |-> pd_concat(dict[st]).v])

\* the orders in which os.listdir can give the entries of a directory
Orders(S) ==
  {o \in [1..Cardinality(S) -> S] : \A i, j \in DOMAIN o : i # j => o[i] # o[j]}

\* what a scan-type directory of a subject of the root can be: missing, or
\* holding one .dcm file, which every extractor can read or none can
DirStates == {"missing", "unreadable", "readable"}

DriverDir(subject, state) ==
  IF state = "missing"
  THEN Missing
  ELSE MkDir(<<MkFile(subject, 1,
                      [ext |-> ".dcm", hdr |-> state = "readable",
                       img |-> state = "readable", tex |-> state = "readable",
                       haspid |-> state = "readable"])>>, 1)

\* the driver before its first run
DriverStart ==
  /\ call = NoCall
  /\ num_workers = 0
  /\ run = 1
  /\ pc = "start"
  /\ subjects = <<>>
  /\ next_task = 0
  /\ worker = <<>>
  /\ cache = <<>>
  /\ results = <<>>
  /\ scan_types_dict = <<>>
  /\ out = NoCall
  /\ prev = NoCall

\* the subject directories of the roots: every scan type readable; only
\* FLAIR there; FLAIR unreadable and the others readable; no scan type there
SubjectLayouts ==
  {[st \in ScanTypeSet |-> "readable"],
   [st \in ScanTypeSet |-> IF st = "FLAIR" THEN "readable" ELSE "missing"],
   [st \in ScanTypeSet |-> IF st = "FLAIR" THEN "unreadable" ELSE "readable"],
   [st \in ScanTypeSet |-> "missing"]}

\* a root with up to MaxSubjects subjects
Init ==
  /\ \E n \in 0..MaxSubjects :
       \E layout \in [1..n -> SubjectLayouts] :
         fs = [subject \in 1..n |->
                 [st \in ScanTypeSet |-> DriverDir(subject, layout[subject][st])]]
  /\ DriverStart

\* lines 216-223: a processor with n workers lists the subjects and opens the pool
Start(n, order) ==
  /\ pc = "start"
  /\ num_workers' = n
  /\ subjects' = order
  /\ next_task' = 1
  /\ worker' = [w \in 1..n |-> 0]
  /\ cache' = [i \in DOMAIN order |-> Pending]
  /\ results' = <<>>
  /\ pc' = "imap"
  /\ UNCHANGED <<fs, call, run, scan_types_dict, out, prev>>

\* an idle worker process takes the next task of the pool's queue
WorkerTake(w) ==
  /\ pc = "imap"
  /\ worker[w] = 0
  /\ next_task <= Len(subjects)
  /\ worker' = [worker EXCEPT ![w] = next_task]
  /\ next_task' = next_task + 1
  /\ UNCHANGED <<fs, call, num_workers, run, pc, subjects, cache, results,
                 scan_types_dict, out, prev>>

\* a worker process finishes process_subject and sends the result back
WorkerReturn(w) ==
  /\ pc = "imap"
  /\ worker[w] # 0
  /\ cache' = [cache EXCEPT ![worker[w]] = process_subject(subjects[worker[w]])]
  /\ worker' = [worker EXCEPT ![w] = 0]
  /\ UNCHANGED <<fs, call, num_workers, run, pc, subjects, next_task, results,
                 scan_types_dict, out, prev>>

\* line 224: imap has the result of task n + 1, the next in the order of submission
NextReady(c, n) == c[n + 1].tag # "pending"

\* line 224: list() takes the next result from imap; an exception of the
\* task is raised again in the coordinating process
Collect ==
  /\ pc = "imap"
  /\ Len(results) < Len(subjects)
  /\ NextReady(cache, Len(results))
  /\ LET r == cache[Len(results) + 1]
     IN  IF r.tag = "raise"
         THEN /\ pc' = "done"
              /\ out' = r
              /\ UNCHANGED results
         ELSE /\ results' = Append(results, r.v)
              /\ UNCHANGED <<pc, out>>
  /\ UNCHANGED <<fs, call, num_workers, run, subjects, next_task, worker, cache,
                 scan_types_dict, prev>>

\* a list() that stops without waiting for the results
ListDoneNoWait(collected, total) == TRUE

\* a list() that stops one result short
ListDoneOneShort(collected, total) == collected >= total - 1

\* line 224: list() ends when imap has given one result per subject
ListDone(collected, total) == collected = total

\* lines 223-224: list() has every result, the with block ends
PoolClose ==
  /\ pc = "imap"
  /\ ListDone(Len(results), Len(subjects))
  /\ pc' = "regroup"
  /\ UNCHANGED <<fs, call, num_workers, run, subjects, next_task, worker, cache,
                 results, scan_types_dict, out, prev>>

\* lines 227-231
Regroup ==
  /\ pc = "regroup"
  /\ LET r == RegroupResults([st \in ScanTypeSet |-> <<>>], results)
     IN  IF r.tag = "raise"
         THEN /\ pc' = "done"
              /\ out' = r
              /\ UNCHANGED scan_types_dict
         ELSE /\ pc' = "concat"
              /\ scan_types_dict' = r.v
              /\ UNCHANGED out
  /\ UNCHANGED <<fs, call, num_workers, run, subjects, next_task, worker, cache,
                 results, prev>>

\* line 233
Concat ==
  /\ pc = "concat"
  /\ out' = ConcatAll(scan_types_dict)
  /\ pc' = "done"
  /\ UNCHANGED <<fs, call, num_workers, run, subjects, next_task, worker, cache,
                 results, scan_types_dict, prev>>

\* the pipeline is run again on the unchanged tree
Rerun ==
  /\ pc = "done"
  /\ run < MaxRuns
  /\ run' = run + 1
  /\ prev' = out
  /\ pc' = "start"
  /\ num_workers' = 0
  /\ subjects' = <<>>
  /\ next_task' = 0
  /\ worker' = <<>>
  /\ cache' = <<>>
  /\ results' = <<>>
  /\ scan_types_dict' = <<>>
  /\ out' = NoCall
  /\ UNCHANGED <<fs, call>>

\* a step of the coordinating process inside the driver
Coordinator ==
  \/ Collect
  \/ PoolClose
  \/ Regroup
  \/ Concat

\* a step of one run of the driver
NextRun ==
  \/ \E n \in 1..MaxWorkers, order \in Orders(DOMAIN fs) : Start(n, order)
  \/ \E w \in DOMAIN worker : WorkerTake(w)
  \/ \E w \in DOMAIN worker : WorkerReturn(w)
  \/ Coordinator

Next ==
  \/ NextRun
  \/ Rerun

Spec == Init /\ [][Next]_vars

\* the coordinating process keeps running: list(), the regrouping and the
\* concatenation are taken when they can be; a task of a worker may hang
FairSpec == Init /\ [][NextRun]_vars /\ WF_vars(Coordinator)

(***************************************************************************)
(* Properties of the directory aggregator (SpecDirectory).                 *)
(***************************************************************************)
RECURSIVE Flatten(_)
\* the files of a walk, in the order of the walk
Flatten(frames) ==
  IF frames = <<>> THEN <<>> ELSE Head(frames) \o Flatten(Tail(frames))

\* the files of the tree of a directory
FilesOf(dir) == Flatten(dir.frames)

\* the extractor returned a record, not the failure sentinel
Succeeded(r) == r.tag = "dict"

\* the file's name ends in .dcm and the three extractors succeeded on it
QualifiesAndSucceeds(file) ==
  /\ file.name[Len(file.name)] = ".dcm"
  /\ Succeeded(extract_dicom_metadata(file))
  /\ Succeeded(extract_image_statistics(file))
  /\ Succeeded(extract_glcm_features(file))

\* the rows of a table that come from the file of the given name
RowsOf(table, name) ==
  {i \in DOMAIN table.rows : table.rows[i]["DCMFileName"] = name}

\* the directory the last call walked
CalledDir == fs[call.subject][call.scan_type]

\* C1: the table process_dicom_directory returns has exactly one row for each
\* file of the walked tree whose name ends in .dcm and on which the three
\* extractors succeeded, and no row for any other file; so its number of rows
\* is the number of those files.
C1_OneRowPerSucceedingFile ==
  call.op = "process_dicom_directory" =>
    /\ call.ret.tag = "ret"
    /\ LET files == FilesOf(CalledDir)
           table == call.ret.v
           good  == {i \in DOMAIN files : QualifiesAndSucceeds(files[i])}
       IN  /\ Len(table.rows) = Cardinality(good)
           /\ \A i \in DOMAIN files :
                Cardinality(RowsOf(table, files[i].name)) =
                  IF i \in good THEN 1 ELSE 0

\* a walk over a nested tree with a file that is not named .dcm, a .dcm file
\* that fails one extractor only and a .dcm file that succeeds
C1_Witness ==
  /\ call.op = "process_dicom_directory"
  /\ Len(CalledDir.frames) = 2
  /\ LET files == FilesOf(CalledDir)
     IN  /\ \E i \in DOMAIN files : files[i].name[2] # ".dcm"
         /\ \E i \in DOMAIN files :
              /\ files[i].name[2] = ".dcm"
              /\ files[i].hdr /\ files[i].img /\ ~files[i].tex
         /\ \E i \in DOMAIN files : QualifiesAndSucceeds(files[i])
  /\ call.ret.tag = "ret"
  /\ Len(call.ret.v.rows) = 1

\* the file is unreadable or corrupt for at least one extractor
Corrupt(file) == ~(file.hdr /\ file.img /\ file.tex)

PresentTypes(subject) ==
  LET Present(st) == fs[subject][st].exists
  IN  SelectSeq(<<"FLAIR", "T1w", "T1wCE", "T2w">>, Present)

\* the names of the files of a directory that give a row
GoodNames(dir) ==
  {f.name : f \in {FilesOf(dir)[i] : i \in {j \in DOMAIN FilesOf(dir) :
                                             QualifiesAndSucceeds(FilesOf(dir)[j])}}}

\* C2: process_subject returns one table for each scan type of FLAIR, T1w,
\* T1wCE, T2w whose directory exists, in that order, every row of the table
\* labelled in column ScanType with that scan type; a scan type whose
\* directory is missing gives no table and no error.
C2_OneTablePerPresentType ==
  call.op = "process_subject" =>
    /\ call.ret.tag = "ret"
    /\ LET tables  == call.ret.v
           present == PresentTypes(call.subject)
       IN  /\ Len(tables) = Len(present)
           /\ \A k \in DOMAIN tables :
                /\ "ScanType" \in tables[k].cols
                /\ \A i \in DOMAIN tables[k].rows :
                     tables[k].rows[i]["ScanType"] = present[k]
                /\ {tables[k].rows[i]["DCMFileName"] : i \in DOMAIN tables[k].rows}
                     = GoodNames(fs[call.subject][present[k]])

\* a subject with two of the four directories missing: two tables with rows
C2_Witness ==
  /\ call.op = "process_subject"
  /\ PresentTypes(call.subject) = <<"T1w", "T2w">>
  /\ Len(call.ret.v) = 2
  /\ Len(call.ret.v[1].rows) = 1 /\ call.ret.v[1].rows[1]["ScanType"] = "T1w"
  /\ Len(call.ret.v[2].rows) = 2 /\ call.ret.v[2].rows[2]["ScanType"] = "T2w"

\* C10: process_subject adds column SubjectID, holding the name of the
\* subject directory, to a table exactly when the table of
\* process_dicom_directory has no column PatientID, which is exactly when it
\* has no row, also when the header's PatientID is not set; every table
\* has column ScanType.
C10_SubjectIdOnlyOnEmptyTable ==
  call.op = "process_subject" =>
    /\ call.ret.tag = "ret"
    /\ LET tables  == call.ret.v
           present == PresentTypes(call.subject)
       IN  \A k \in DOMAIN tables :
             LET from == process_dicom_directory(fs[call.subject][present[k]]).v
             IN  /\ "ScanType" \in tables[k].cols
                 /\ ("SubjectID" \in tables[k].cols) <=> ("PatientID" \notin from.cols)
                 /\ ("SubjectID" \in tables[k].cols) <=> (Len(tables[k].rows) = 0)
                 /\ \A i \in DOMAIN tables[k].rows :
                      "PatientID" \in DOMAIN tables[k].rows[i]

\* a subject with a table whose rows have no PatientID set in the header and
\* no SubjectID, next to an empty table that has the SubjectID column
C10_Witness ==
  /\ call.op = "process_subject"
  /\ \E k \in DOMAIN call.ret.v :
       /\ Len(call.ret.v[k].rows) >= 1
       /\ \A i \in DOMAIN call.ret.v[k].rows :
            call.ret.v[k].rows[i]["PatientID"] = Unset
       /\ "SubjectID" \notin call.ret.v[k].cols
  /\ \E k \in DOMAIN call.ret.v :
       /\ Len(call.ret.v[k].rows) = 0
       /\ call.ret.v[k].cols = {"SubjectID", "ScanType"}

(***************************************************************************)
(* Properties of the parallel driver (Spec, FairSpec).                     *)
(***************************************************************************)
\* the driver has returned or raised
Finished == pc = "done"

RECURSIVE RowsInOrder(_, _)
\* the rows the subjects of res produced for a scan type, subject after
\* subject in the order of res
RowsInOrder(res, st) ==
  IF res = <<>>
  THEN <<>>
  ELSE LET Labelled(t) == \E i \in DOMAIN t.rows : t.rows[i]["ScanType"] = st
           own == SelectSeq(Head(res), Labelled)
       IN  (IF own = <<>> THEN <<>> ELSE own[1].rows) \o RowsInOrder(Tail(res), st)

\* some subject of the root has a directory for the scan type
SomeSubjectHas(st) == \E subject \in DOMAIN fs : fs[subject][st].exists

\* every directory that exists in the root gives a table with a row
NoEmptyTable ==
  \A subject \in DOMAIN fs : \A st \in ScanTypeSet :
    fs[subject][st].exists => GoodNames(fs[subject][st]) # {}

\* C3 as stated: with at least one subject and no empty table, the driver
\* returns a Result Set in which the table of each scan type holds exactly
\* the rows the subjects produced for it, and a scan type for which no
\* subject has a directory gives no error.
C3_Claim ==
  (Finished /\ DOMAIN fs # {} /\ NoEmptyTable) =>
    /\ out.tag = "ret"
    /\ \A st \in ScanTypeSet : out.v[st].rows = RowsInOrder(results, st)

\* C4 as stated: with no subject directory under the root the driver
\* returns, without an error, a Result Set whose tables have no rows.
C4_Claim ==
  (Finished /\ DOMAIN fs = {}) =>
    /\ out.tag = "ret"
    /\ \A st \in ScanTypeSet : Len(out.v[st].rows) = 0

\* C5 as stated: when a directory that exists gives an empty table (and every
\* scan type has a directory in some subject), the driver regroups the empty
\* table by its ScanType column and returns a Result Set without raising.
C5_Claim ==
  (/\ Finished
   /\ \A st \in ScanTypeSet :
        \E subject \in DOMAIN fs : GoodNames(fs[subject][st]) # {}
   /\ \E i \in DOMAIN results : \E k \in DOMAIN results[i] :
        Len(results[i][k].rows) = 0)
    => out.tag = "ret"

\* the (DCMFileName, ScanType) pairs of the rows of a table
Pairs(table) ==
  {<<table.rows[i]["DCMFileName"], table.rows[i]["ScanType"]>> :
     i \in DOMAIN table.rows}

\* C7: a second run of the pipeline on the unchanged tree, with any number
\* of workers and any interleaving of them, ends as the first run did, and
\* when it returns a Result Set the tables of each scan type have the same
\* number of rows and the same set of (DCMFileName, ScanType) pairs.
C7_RerunGivesSameResultSet ==
  (Finished /\ prev # NoCall) =>
    /\ out.tag = prev.tag
    /\ out.tag = "ret" =>
         \A st \in ScanTypeSet :
           /\ Len(out.v[st].rows) = Len(prev.v[st].rows)
           /\ Pairs(out.v[st]) = Pairs(prev.v[st])

\* two runs that returned: two subjects in every table, in a different order
C7_Witness ==
  /\ Finished /\ prev # NoCall
  /\ out.tag = "ret" /\ prev.tag = "ret"
  /\ \A st \in ScanTypeSet : Len(out.v[st].rows) = 2
  /\ out.v["FLAIR"].rows # prev.v["FLAIR"].rows

\* C8: in each table of the Result Set the rows of the subjects come in the
\* order of the list of results collected from the pool, not sorted by
\* subject, and that list alone determines them.
C8_RowsInOrderOfResults ==
  (Finished /\ out.tag = "ret") =>
    \A st \in ScanTypeSet : out.v[st].rows = RowsInOrder(results, st)

\* subject 2 listed and collected before subject 1: its row comes first
C8_Witness ==
  /\ Finished /\ out.tag = "ret"
  /\ subjects = <<2, 1>>
  /\ Len(out.v["T1w"].rows) = 2
  /\ out.v["T1w"].rows[1]["PatientID"] = 2
  /\ out.v["T1w"].rows[2]["PatientID"] = 1

\* every task handed to the pool has returned
AllTasksReturned ==
  /\ pc # "start"
  /\ \A i \in DOMAIN cache : cache[i].tag # "pending"
  /\ \A w \in DOMAIN worker : worker[w] = 0
  /\ next_task > Len(subjects)

\* C9: the driver regroups, and returns or raises, only after every subject
\* task has returned and every result is collected (so a task that never
\* returns keeps the driver from returning, and no partial Result Set is
\* produced), and once every task has returned the driver eventually leaves
\* the call.
C9_NoResultBeforeAllTasksReturn ==
  /\ [](pc \in {"regroup", "concat", "done"} =>
          AllTasksReturned /\ Len(results) = Len(subjects))
  /\ [](~Finished => out = NoCall)
  /\ (AllTasksReturned ~> Finished)

\* the driver waits in list() for the second task while holding the first
\* result, and has produced nothing
C9_Witness ==
  /\ pc = "imap"
  /\ Len(subjects) = 2
  /\ Len(results) = 1
  /\ \E w \in DOMAIN worker : worker[w] = 2
  /\ out = NoCall

====
